---- MODULE Spec2Model ----
(***************************************************************************)
(* filesystem-frontmatter-mcp: the frontmatter parser (parser.py), the     *)
(* query executor (query.py) and the tool handler (server.py).             *)
(*                                                                         *)
(* Spec    the server: call_tool requests over a file system               *)
(* SpecFn  direct calls of infer_type, infer_schema and execute_query      *)
(***************************************************************************)
EXTENDS Integers, Sequences, FiniteSets, TLC

VARIABLES
    base_dir,       \* server._base_dir, a path (sequence of components)
    fs,             \* the file system: path -> what frontmatter.load finds
    pc,             \* position of the call_tool handler
    arguments,      \* the request: [name, glob, sql]
    paths,          \* parse_files: the paths argument
    idx,            \* parse_files: position of the for loop
    records,        \* parse_files: records
    warnings,       \* parse_files: warnings
    raised,         \* the exception that left the handler, or "none"
    response,       \* what the last request gave its caller
    prior_failed,   \* history: the request before that one failed
    call,           \* SpecFn: the function called and its arguments
    ret             \* SpecFn: what the call gave

vars == <<base_dir, fs, pc, arguments, paths, idx, records, warnings, raised,
          response, prior_failed, call, ret>>

server_vars == <<base_dir, fs, pc, arguments, paths, idx, records, warnings,
                 raised, response, prior_failed>>

(***************************************************************************)
(* Bounds                                                                  *)
(***************************************************************************)
MaxListLen == 3
MaxBatch == 5
MaxSamples == 2
MaxFiles == 3

(***************************************************************************)
(* Python values as frontmatter yields them: the class, the literal as     *)
(* written, and for a list the classes of its elements.                    *)
(***************************************************************************)
Scalar(cls, val) == [cls |-> cls, val |-> val, elems |-> <<>>]

List(elems) == [cls |-> "list", val |-> "", elems |-> elems]

None == Scalar("NoneType", "")

ElemClasses == {"str", "int", "NoneType"}

ElemSeqs == UNION {[1..n -> ElemClasses] : n \in 0..MaxListLen}

Values ==
    {None,
     Scalar("bool", "True"), Scalar("bool", "False"),
     Scalar("int", "1"), Scalar("int", "2"),
     Scalar("float", "1.0"),
     Scalar("date", "2025-11-27"),
     Scalar("datetime", "2025-11-27 10:00:00"),
     Scalar("str", "1"), Scalar("str", "2"), Scalar("str", "True"),
     Scalar("str", "T"), Scalar("str", "U"),
     Scalar("dict", "{'k': 'v'}")}
    \cup {List(e) : e \in ElemSeqs}

\* The classes a value of class cls is an instance of: bool subclasses int,
\* datetime subclasses date.
Bases(cls) ==
    CASE cls = "bool" -> {"bool", "int"}
      [] cls = "datetime" -> {"datetime", "date"}
      [] OTHER -> {cls}

isinstance(value, cls) == cls \in Bases(value.cls)

\* str(v) of a list element of class c (its repr).
ElemRepr(c) ==
    CASE c = "str" -> "'a'"
      [] c = "int" -> "1"
      [] OTHER -> "None"

RECURSIVE JoinRepr(_)
JoinRepr(elems) ==
    IF elems = <<>> THEN ""
    ELSE IF Len(elems) = 1 THEN ElemRepr(elems[1])
    ELSE ElemRepr(elems[1]) \o ", " \o JoinRepr(Tail(elems))

\* Python's str(value): the text of a string, the repr of anything else.
str(value) ==
    CASE value.cls = "NoneType" -> "None"
      [] value.cls = "list" -> "[" \o JoinRepr(value.elems) \o "]"
      [] OTHER -> value.val

(***************************************************************************)
(* parser.infer_type                                                       *)
(***************************************************************************)
infer_type_IntFirst(value) ==
    IF value = None THEN "null"
    ELSE IF isinstance(value, "int") THEN "integer"
    ELSE IF isinstance(value, "bool") THEN "boolean"
    ELSE IF isinstance(value, "float") THEN "double"
    ELSE IF isinstance(value, "date") /\ ~isinstance(value, "datetime") THEN "date"
    ELSE IF isinstance(value, "datetime") THEN "timestamp"
    ELSE IF isinstance(value, "list") THEN
        IF value.elems # <<>> /\ \A i \in 1..Len(value.elems) : value.elems[i] = "str"
        THEN "array<string>" ELSE "array"
    ELSE IF isinstance(value, "str") THEN "string"
    ELSE "json"

infer_type(value) ==
    IF value = None THEN "null"
    ELSE IF isinstance(value, "bool") THEN "boolean"
    ELSE IF isinstance(value, "int") THEN "integer"
    ELSE IF isinstance(value, "float") THEN "double"
    ELSE IF isinstance(value, "date") /\ ~isinstance(value, "datetime") THEN "date"
    ELSE IF isinstance(value, "datetime") THEN "timestamp"
    ELSE IF isinstance(value, "list") THEN
        IF value.elems # <<>> /\ \A i \in 1..Len(value.elems) : value.elems[i] = "str"
        THEN "array<string>" ELSE "array"
    ELSE IF isinstance(value, "str") THEN "string"
    ELSE "json"

(***************************************************************************)
(* Records: what parse_file returns, a mapping from property name to value *)
(***************************************************************************)
Path(name) == Scalar("str", name)

RecordPool ==
    {("path" :> Path("a.md")) @@ ("x" :> Scalar("int", "1")),
     ("path" :> Path("b.md")) @@ ("x" :> Scalar("str", "1"))
                              @@ ("title" :> Scalar("str", "T")),
     ("path" :> Path("c.md")) @@ ("x" :> None)
                              @@ ("title" :> List(<<"str">>)),
     ("path" :> Path("d.md")) @@ ("title" :> Scalar("str", "U")),
     ("path" :> Path("e.md")) @@ ("x" :> Scalar("str", "2"))
                              @@ ("title" :> Scalar("str", "T"))}

Batches == UNION {[1..n -> RecordPool] : n \in 0..MaxBatch}

Keys(recs) == UNION {DOMAIN recs[i] : i \in 1..Len(recs)}

(***************************************************************************)
(* parser.infer_schema                                                     *)
(***************************************************************************)
\* property_values[prop]: one entry per record that holds the key.
RECURSIVE property_values(_, _)
property_values(recs, prop) ==
    IF recs = <<>> THEN <<>>
    ELSE (IF prop \in DOMAIN Head(recs) THEN <<Head(recs)[prop]>> ELSE <<>>)
         \o property_values(Tail(recs), prop)

IsNotNone(v) == v # None

non_null_values(values) == SelectSeq(values, IsNotNone)

nullable_OfEntries(count, values, total_files) == count < Len(values)

nullable(count, values, total_files) == count < total_files

keep_sample_NoCap(key, seen, samples, max_samples) == key \notin seen

keep_sample(key, seen, samples, max_samples) ==
    key \notin seen /\ Len(samples) < max_samples

RECURSIVE collect_samples(_, _, _, _)
collect_samples(values, seen, samples, max_samples) ==
    IF values = <<>> THEN samples
    ELSE LET v == Head(values)
             key == str(v)
         IN  IF keep_sample(key, seen, samples, max_samples)
             THEN collect_samples(Tail(values), seen \cup {key},
                                  Append(samples, v), max_samples)
             ELSE collect_samples(Tail(values), seen, samples, max_samples)

infer_schema(recs, max_samples) ==
    LET total_files == Len(recs)
        entry(prop) ==
            LET values == property_values(recs, prop)
                nn == non_null_values(values)
                count == Len(nn)
            IN  [type |-> IF nn # <<>> THEN infer_type(nn[1]) ELSE "null",
                 count |-> count,
                 nullable |-> nullable(count, values, total_files),
                 sample_values |-> collect_samples(nn, {}, <<>>, max_samples)]
    IN  [prop \in Keys(recs) \ {"path"} |-> entry(prop)]

(***************************************************************************)
(* query.execute_query                                                     *)
(***************************************************************************)
Q_COUNT == "SELECT COUNT(*) FROM files"
Q_PATH == "SELECT path FROM files"
Q_TITLE == "SELECT title FROM files"
Q_NULL == "SELECT path FROM files WHERE title IS NULL"
Q_SYNTAX == "SELEC path FROM files"
Q_NOTABLE == "SELECT path FROM nofile"
Q_SAMENAME == "SELECT path AS v, title AS v FROM files"

Queries == {Q_COUNT, Q_PATH, Q_TITLE, Q_NULL, Q_SYNTAX, Q_NOTABLE,
            Q_SAMENAME}

EmptyResult == [results |-> <<>>, row_count |-> 0, columns |-> <<>>]

not_records_Never(recs) == FALSE

not_records_OrSingle(recs) == Len(recs) <= 1

not_records(recs) == recs = <<>>

\* record.get(key)
get(record, key) == IF key \in DOMAIN record THEN record[key] ELSE None

RECURSIVE column(_, _)
column(recs, key) ==
    IF recs = <<>> THEN <<>>
    ELSE <<get(Head(recs), key)>> \o column(Tail(recs), key)

columns_data_FirstKeys(recs) == [key \in DOMAIN recs[1] |-> column(recs, key)]

columns_data(recs) == [key \in Keys(recs) |-> column(recs, key)]

\* pa.table(columns_data) converts each column to one Arrow type; a column
\* of one class converts, a column mixing classes may be refused.
Uniform(col) ==
    /\ \A i, j \in 1..Len(col) :
        col[i] # None /\ col[j] # None => col[i].cls = col[j].cls
    /\ \A i \in 1..Len(col) : \A m, n \in 1..Len(col[i].elems) :
        col[i].elems[m] = col[i].elems[n]

pa_table(data, accept) ==
    IF accept \/ \A key \in DOMAIN data : Uniform(data[key])
    THEN [error |-> "none", table |-> data]
    ELSE [error |-> "ArrowInvalid", table |-> <<>>]

num_rows(table) ==
    IF DOMAIN table = {} THEN 0 ELSE Len(table[CHOOSE k \in DOMAIN table : TRUE])

IntValue(n) == Scalar("int", ToString(n))

\* The relational engine on the registered table 'files': conn.execute(sql),
\* result.description and result.fetchall().
Project(table, key, rows) ==
    IF key \in DOMAIN table
    THEN [error |-> "none", columns |-> <<key>>,
          rows |-> [i \in 1..Len(rows) |-> <<table[key][rows[i]]>>]]
    ELSE [error |-> "BinderException", columns |-> <<>>, rows |-> <<>>]

RECURSIVE NullRows(_, _)
NullRows(col, i) ==
    IF i > Len(col) THEN <<>>
    ELSE (IF col[i] = None THEN <<i>> ELSE <<>>) \o NullRows(col, i + 1)

Engine(table, sql) ==
    LET all == [i \in 1..num_rows(table) |-> i]
    IN  CASE sql = Q_COUNT ->
               [error |-> "none", columns |-> <<"count_star()">>,
                rows |-> << <<IntValue(num_rows(table))>> >>]
          [] sql = Q_PATH -> Project(table, "path", all)
          [] sql = Q_TITLE -> Project(table, "title", all)
          [] sql = Q_NULL ->
               IF "title" \in DOMAIN table
               THEN Project(table, "path", NullRows(table["title"], 1))
               ELSE [error |-> "BinderException", columns |-> <<>>, rows |-> <<>>]
          [] sql = Q_SAMENAME ->
               IF {"path", "title"} \subseteq DOMAIN table
               THEN [error |-> "none", columns |-> <<"v", "v">>,
                     rows |-> [i \in 1..num_rows(table) |->
                                  <<table["path"][i], table["title"][i]>>]]
               ELSE [error |-> "BinderException", columns |-> <<>>, rows |-> <<>>]
          [] sql = Q_NOTABLE ->
               [error |-> "CatalogException", columns |-> <<>>, rows |-> <<>>]
          [] OTHER ->
               [error |-> "ParserException", columns |-> <<>>, rows |-> <<>>]

\* dict(zip(columns, row, strict=True)): a later column of the same name
\* overwrites an earlier one.
dict_zip(columns, row) ==
    [name \in {columns[i] : i \in 1..Len(columns)} |->
        LET last == CHOOSE i \in 1..Len(columns) :
                /\ columns[i] = name
                /\ \A j \in 1..Len(columns) : columns[j] = name => j <= i
        IN  row[last]]

run_query_Swallow(table, sql) ==
    LET result == Engine(table, sql)
        results == [i \in 1..Len(result.rows) |->
                        dict_zip(result.columns, result.rows[i])]
    IN  [raised |-> "none",
         result |-> IF result.error # "none" THEN EmptyResult
                    ELSE [results |-> results, row_count |-> Len(results),
                          columns |-> result.columns]]

\* conn.execute(sql) on the registered table; an engine error leaves the
\* function at once.
run_query(table, sql) ==
    LET result == Engine(table, sql)
        results == [i \in 1..Len(result.rows) |->
                        dict_zip(result.columns, result.rows[i])]
    IN  IF result.error # "none"
        THEN [raised |-> result.error, result |-> "none"]
        ELSE [raised |-> "none",
              result |-> [results |-> results, row_count |-> Len(results),
                          columns |-> result.columns]]

\* What the call gives (raised, result) and what it did on the way: the
\* columns it built, whether a table was made of them, and how often the
\* engine was given the query.
execute_query(recs, sql, accept) ==
    IF not_records(recs)
    THEN [raised |-> "none", result |-> EmptyResult,
          columns_data |-> <<>>, table_built |-> FALSE, engine_calls |-> 0]
    ELSE LET data == columns_data(recs)
             arrow == pa_table(data, accept)
         IN  IF arrow.error # "none"
             THEN [raised |-> arrow.error, result |-> "none",
                   columns_data |-> data, table_built |-> FALSE,
                   engine_calls |-> 0]
             ELSE LET out == run_query(arrow.table, sql)
                  IN  [raised |-> out.raised, result |-> out.result,
                       columns_data |-> data, table_built |-> TRUE,
                       engine_calls |-> 1]

(***************************************************************************)
(* Paths and the file system                                               *)
(***************************************************************************)
FileNames == <<"a.md", "b.md", "c.md", "d.md", "e.md", "f.md">>

BaseDir == <<"base">>

InBase == {BaseDir \o <<FileNames[i]>> : i \in 1..MaxFiles}

Outside == <<"other", "x.md">>

Files == InBase \cup {Outside}

\* What frontmatter.load(path) finds: a header that cannot be decoded, no
\* header at all, or a header with its metadata.
Contents ==
    {[ok |-> FALSE, metadata |-> <<>>],
     [ok |-> TRUE, metadata |-> <<>>],
     [ok |-> TRUE, metadata |-> ("title" :> Scalar("str", "T"))],
     [ok |-> TRUE, metadata |-> ("path" :> Scalar("str", "evil.md"))
                                @@ ("title" :> None)]}

\* The contents a file is given: the file outside the base directory is
\* one that cannot be decoded or one without header.
ContentsAt(path) ==
    IF path = Outside THEN {c \in Contents : c.metadata = <<>>} ELSE Contents

NoException == [exc |-> "none", in |-> "none"]

\* No response is held: none was given yet, or the caller has taken it.
NoResponse == [taken |-> TRUE]

\* path.relative_to(base): the components below base, ValueError when path
\* does not lie under base.
relative_to(path, base) ==
    IF Len(path) >= Len(base) /\ SubSeq(path, 1, Len(base)) = base
    THEN [exc |-> "none", rel |-> SubSeq(path, Len(base) + 1, Len(path))]
    ELSE [exc |-> "ValueError", rel |-> <<>>]

\* str(path) of a relative path.
RECURSIVE path_str(_)
path_str(rel) ==
    IF rel = <<>> THEN "."
    ELSE IF Len(rel) = 1 THEN rel[1]
    ELSE rel[1] \o "/" \o path_str(Tail(rel))

(***************************************************************************)
(* parser.parse_file and parser.parse_files                                *)
(***************************************************************************)
\* result.update(post.metadata): a key of the metadata replaces the same
\* key of result.
update(result, metadata) == metadata @@ result

parse_file(path, base, content) ==
    IF ~content.ok THEN [exc |-> "YAMLError", record |-> <<>>]
    ELSE LET rel == relative_to(path, base)
         IN  IF rel.exc # "none" THEN [exc |-> rel.exc, record |-> <<>>]
             ELSE [exc |-> "none",
                   record |-> update("path" :> Path(path_str(rel.rel)),
                                     content.metadata)]

add_warning_Drop(warns, entry) == warns

add_warning(warns, entry) == Append(warns, entry)

(***************************************************************************)
(* server.collect_files and server.call_tool                               *)
(***************************************************************************)
G_ALL == "*.md"
G_ONE == "a.md"
G_ABS == "/other/*.md"
G_NONE == "*.txt"

Globs == {G_ALL, G_ONE, G_ABS, G_NONE}

ServerQueries == {Q_COUNT, Q_TITLE, Q_SYNTAX}

DefaultMaxSamples == 5

\* glob.glob(str(base / glob_pattern), recursive=True): joining an absolute
\* pattern to base gives the pattern itself.
matches(base, glob) ==
    CASE glob = G_ALL -> {p \in Files : Len(p) = Len(base) + 1
                                        /\ SubSeq(p, 1, Len(base)) = base}
      [] glob = G_ONE -> {p \in Files : p = base \o <<"a.md">>}
      [] glob = G_ABS -> {p \in Files : p[1] = "other"}
      [] OTHER -> {}

\* The lists collect_files may return: the matches, in the order the
\* directory listing gives them.
collect_files(base, glob) ==
    LET S == matches(base, glob)
    IN  {f \in [1..Cardinality(S) -> S] :
            \A i, j \in 1..Cardinality(S) : i # j => f[i] # f[j]}

\* records = [] and warnings = [] at the head of parse_files: a list of the
\* call, not one kept from an earlier call.
new_list_Shared(old) == old

new_list(old) == <<>>

\* The caller has taken the response: what remains is whether the request
\* failed.
taken(resp, before) ==
    IF resp = NoResponse THEN before ELSE "error" \in DOMAIN resp

CallTool ==
    /\ pc = "idle"
    /\ \E name \in {"inspect_frontmatter", "query_frontmatter", "unknown"},
          glob \in Globs, sql \in ServerQueries :
        /\ name = "inspect_frontmatter" => sql = Q_COUNT
        /\ name = "unknown" => (sql = Q_COUNT /\ glob = G_NONE)
        /\ arguments' = [name |-> name, glob |-> glob,
                         sql |-> IF name = "query_frontmatter" THEN sql ELSE ""]
        /\ response' = NoResponse
        /\ prior_failed' = taken(response, prior_failed)
        /\ records' = new_list(records)
        /\ warnings' = new_list(warnings)
        /\ idx' = 1
        /\ IF name = "unknown"
           THEN /\ raised' = [exc |-> "ValueError", in |-> "call_tool"]
                /\ pc' = "raised"
                /\ paths' = <<>>
           ELSE /\ raised' = NoException
                /\ pc' = "parse_files"
                /\ paths' \in collect_files(base_dir, glob)
    /\ UNCHANGED <<base_dir, fs, call, ret>>

\* One iteration of the loop of parse_files.
ParseFilesStep ==
    /\ pc = "parse_files"
    /\ idx <= Len(paths)
    /\ LET path == paths[idx]
           parsed == parse_file(path, base_dir, fs[path])
           rel == relative_to(path, base_dir)
       IN  IF parsed.exc = "none"
           THEN /\ records' = Append(records, parsed.record)
                /\ idx' = idx + 1
                /\ UNCHANGED <<warnings, raised, pc>>
           ELSE IF rel.exc = "none"
           THEN /\ warnings' = add_warning(warnings,
                                   [path |-> path_str(rel.rel),
                                    error |-> parsed.exc])
                /\ idx' = idx + 1
                /\ UNCHANGED <<records, raised, pc>>
           ELSE /\ raised' = [exc |-> rel.exc, in |-> "parse_files"]
                /\ pc' = "raised"
                /\ UNCHANGED <<records, warnings, idx>>
    /\ UNCHANGED <<base_dir, fs, arguments, paths, response, prior_failed,
                   call, ret>>

ParseFilesReturn ==
    /\ pc = "parse_files"
    /\ idx > Len(paths)
    /\ pc' = IF arguments.name = "inspect_frontmatter"
             THEN "infer_schema" ELSE "execute_query"
    /\ UNCHANGED <<base_dir, fs, arguments, paths, idx, records, warnings,
                   raised, response, prior_failed, call, ret>>

with_warnings(result, warns) ==
    IF warns # <<>> THEN result @@ ("warnings" :> warns) ELSE result

\* The handler returns or fails: its locals are gone.
Leave ==
    /\ paths' = <<>>
    /\ idx' = 1
    /\ records' = new_list(records)
    /\ warnings' = new_list(warnings)
    /\ raised' = NoException
    /\ pc' = "idle"

InspectFrontmatter ==
    /\ pc = "infer_schema"
    /\ response' = with_warnings(
            [file_count |-> Len(records),
             schema |-> infer_schema(records, DefaultMaxSamples)], warnings)
    /\ Leave
    /\ UNCHANGED <<base_dir, fs, arguments, prior_failed, call, ret>>

QueryFrontmatter ==
    /\ pc = "execute_query"
    /\ \E accept \in BOOLEAN :
        LET out == execute_query(records, arguments.sql, accept)
        IN  IF out.raised # "none"
            THEN /\ raised' = [exc |-> out.raised, in |-> "execute_query"]
                 /\ pc' = "raised"
                 /\ UNCHANGED <<response, paths, idx, records, warnings>>
            ELSE /\ response' = with_warnings(out.result, warnings)
                 /\ Leave
    /\ UNCHANGED <<base_dir, fs, arguments, prior_failed, call, ret>>

\* An exception leaves call_tool: the request fails with it.
RequestFails ==
    /\ pc = "raised"
    /\ response' = [error |-> raised.exc]
    /\ Leave
    /\ UNCHANGED <<base_dir, fs, arguments, prior_failed, call, ret>>

\* Between two requests a file is written: its header is another one when
\* the next request reads it. A request runs to its end without a pause
\* (it is synchronous), so no write falls inside one.
WriteFile ==
    /\ pc = "idle"
    /\ \E path \in Files : \E content \in ContentsAt(path) :
        /\ fs[path] # content
        /\ fs' = [fs EXCEPT ![path] = content]
    /\ response' = NoResponse
    /\ prior_failed' = taken(response, prior_failed)
    /\ UNCHANGED <<base_dir, pc, arguments, paths, idx, records, warnings,
                   raised, call, ret>>

Init ==
    /\ base_dir = BaseDir
    /\ fs \in {f \in [Files -> Contents] : \A p \in Files : f[p] \in ContentsAt(p)}
    /\ pc = "idle"
    /\ arguments = [name |-> "none", glob |-> "", sql |-> ""]
    /\ paths = <<>>
    /\ idx = 1
    /\ records = <<>>
    /\ warnings = <<>>
    /\ raised = NoException
    /\ response = NoResponse
    /\ prior_failed = FALSE
    /\ call = [fn |-> "idle"]
    /\ ret = "none"

Next ==
    \/ CallTool
    \/ ParseFilesStep
    \/ ParseFilesReturn
    \/ InspectFrontmatter
    \/ QueryFrontmatter
    \/ RequestFails
    \/ WriteFile

Spec == Init /\ [][Next]_vars

(***************************************************************************)
(* SpecFn: direct calls                                                    *)
(***************************************************************************)
Idle == [fn |-> "idle"]

CallInferType ==
    /\ call = Idle
    /\ \E value \in Values :
        /\ call' = [fn |-> "infer_type", value |-> value]
        /\ ret' = infer_type(value)
    /\ UNCHANGED server_vars

CallInferSchema ==
    /\ call = Idle
    /\ \E recs \in Batches, max_samples \in 0..MaxSamples :
        /\ call' = [fn |-> "infer_schema", records |-> recs,
                    max_samples |-> max_samples]
        /\ ret' = infer_schema(recs, max_samples)
    /\ UNCHANGED server_vars

CallExecuteQuery ==
    /\ call = Idle
    /\ \E recs \in Batches, sql \in Queries, accept \in BOOLEAN :
        /\ call' = [fn |-> "execute_query", records |-> recs, sql |-> sql]
        /\ ret' = execute_query(recs, sql, accept)
    /\ UNCHANGED server_vars

Return ==
    /\ call # Idle
    /\ call' = Idle
    /\ ret' = "none"
    /\ UNCHANGED server_vars

InitFn ==
    /\ base_dir = <<"base">>
    /\ fs = [p \in Files |-> [ok |-> TRUE, metadata |-> <<>>]]
    /\ pc = "idle"
    /\ arguments = [name |-> "none", glob |-> "", sql |-> ""]
    /\ paths = <<>>
    /\ idx = 1
    /\ records = <<>>
    /\ warnings = <<>>
    /\ raised = NoException
    /\ response = NoResponse
    /\ prior_failed = FALSE
    /\ call = Idle
    /\ ret = "none"

NextFn ==
    \/ CallInferType
    \/ CallInferSchema
    \/ CallExecuteQuery
    \/ Return

SpecFn == InitFn /\ [][NextFn]_vars

(***************************************************************************)
(* Claims checked under Spec                                               *)
(***************************************************************************)
\* parse_files has returned to call_tool.
ParseFilesReturned == pc \in {"infer_schema", "execute_query"}

\* The last component of a path: its path relative to base for a file
\* directly under base.
FileName(path) == path[Len(path)]

OkIndices == {i \in 1..Len(paths) : fs[paths[i]].ok}

FailedIndices == {i \in 1..Len(paths) : ~fs[paths[i]].ok}

\* The position in its list of the element input position i contributes.
Rank(i, S) == Cardinality({j \in S : j <= i})

\* C3: no exception escapes parse_files, whatever the paths and the base
\* directory; a file whose extraction fails becomes a failure report with
\* its relative path and an error string, and the other files are processed.
C3_FailureIsolating ==
    /\ raised.in # "parse_files"
    /\ ParseFilesReturned =>
        /\ \A i \in FailedIndices : \E k \in 1..Len(warnings) :
               /\ warnings[k].path = FileName(paths[i])
               /\ warnings[k].error # ""
        /\ Len(records) = Cardinality(OkIndices)

\* rec holds the metadata of the file at path, and the path key.
FromFile(rec, path) ==
    /\ DOMAIN rec = DOMAIN fs[path].metadata \cup {"path"}
    /\ \A key \in DOMAIN fs[path].metadata : rec[key] = fs[path].metadata[key]
    /\ "path" \notin DOMAIN fs[path].metadata =>
           rec["path"] = Path(FileName(path))

\* C4: when parse_files returns, every input path has contributed exactly
\* one element to exactly one of the two lists: records holds the files
\* that were extracted, in input order, and the failure reports hold the
\* files that failed, in input order.
C4_OrderPreservingPartition ==
    ParseFilesReturned =>
        /\ Len(records) = Cardinality(OkIndices)
        /\ Len(warnings) = Cardinality(FailedIndices)
        /\ \A i \in OkIndices : FromFile(records[Rank(i, OkIndices)], paths[i])
        /\ \A i \in FailedIndices :
               warnings[Rank(i, FailedIndices)].path = FileName(paths[i])

\* Three inputs, valid, invalid, valid, and parse_files has returned.
C4_Witness ==
    /\ ParseFilesReturned
    /\ Len(paths) = 3
    /\ fs[paths[1]].ok /\ ~fs[paths[2]].ok /\ fs[paths[3]].ok
    /\ fs[paths[1]].metadata # fs[paths[3]].metadata
    /\ Len(records) = 2 /\ Len(warnings) = 1

\* C5: the record parse_file returned last holds the key 'path' with the
\* file's path relative to the base directory, whatever the header holds,
\* and a file without header gives a record whose only key is 'path'.
C5_PathKeyReserved ==
    (pc = "parse_files" /\ idx > 1 /\ fs[paths[idx - 1]].ok) =>
        LET rec == records[Len(records)]
            path == paths[idx - 1]
        IN  /\ "path" \in DOMAIN rec
            /\ rec["path"] = Path(FileName(path))
            /\ fs[path].metadata = <<>> => DOMAIN rec = {"path"}

\* parse_files on the whole list at once, over the files as they are.
RECURSIVE ParseAll(_, _)
ParseAll(ps, files) ==
    IF ps = <<>> THEN [exc |-> "none", records |-> <<>>, warnings |-> <<>>]
    ELSE LET parsed == parse_file(Head(ps), BaseDir, files[Head(ps)])
             rel == relative_to(Head(ps), BaseDir)
             rest == ParseAll(Tail(ps), files)
         IN  IF parsed.exc # "none" /\ rel.exc # "none"
             THEN [exc |-> rel.exc, records |-> <<>>, warnings |-> <<>>]
             ELSE IF rest.exc # "none" THEN rest
             ELSE IF parsed.exc = "none"
             THEN [rest EXCEPT !.records = <<parsed.record>> \o @]
             ELSE [rest EXCEPT !.warnings =
                        <<[path |-> path_str(rel.rel),
                           error |-> parsed.exc]>> \o @]

\* What a request with these arguments gives when it is the only one ever
\* made, the directory listing giving ps and the files being as they are.
OnlyRequest(args, ps, accept, files) ==
    LET parsed == ParseAll(ps, files)
        out == execute_query(parsed.records, args.sql, accept)
    IN  IF args.name = "unknown" THEN [error |-> "ValueError"]
        ELSE IF parsed.exc # "none" THEN [error |-> parsed.exc]
        ELSE IF args.name = "inspect_frontmatter"
        THEN with_warnings(
                [file_count |-> Len(parsed.records),
                 schema |-> infer_schema(parsed.records, DefaultMaxSamples)],
                parsed.warnings)
        ELSE IF out.raised # "none" THEN [error |-> out.raised]
        ELSE with_warnings(out.result, parsed.warnings)

\* A request has just been answered.
Answered == pc = "idle" /\ response # NoResponse

\* C11: the base directory is the one configured at process start, and the
\* response to a request, whatever requests came before it, is one that its
\* arguments and the files as they are when it runs give to a request that
\* is the only one ever made.
C11_NoCrossRequestState ==
    /\ base_dir = BaseDir
    /\ Answered =>
        \E ps \in collect_files(BaseDir, arguments.glob), accept \in BOOLEAN :
            response = OnlyRequest(arguments, ps, accept, fs)

\* A query answered with rows and warnings, after a request that failed and
\* with a file that holds a header.
C11_Witness ==
    /\ Answered
    /\ prior_failed
    /\ arguments.name = "query_frontmatter"
    /\ "error" \notin DOMAIN response
    /\ "warnings" \in DOMAIN response
    /\ response.row_count >= 1
    /\ \E p \in InBase : fs[p].metadata # <<>>

(***************************************************************************)
(* Claims checked under SpecFn                                             *)
(***************************************************************************)
\* The number of records of a batch that hold prop with a non-null value.
NonNullCount(recs, prop) ==
    Cardinality({i \in 1..Len(recs) :
                    prop \in DOMAIN recs[i] /\ recs[i][prop] # None})

\* C1: for every property of the schema infer_schema returns, count is the
\* number of records holding the property with a non-null value, and
\* nullable is true exactly when that number is below the number of records
\* of the batch; a record without the property counts like one holding null.
C1_NullableIffCountBelowTotal ==
    call.fn = "infer_schema" =>
        \A prop \in DOMAIN ret :
            /\ ret[prop].count = NonNullCount(call.records, prop)
            /\ ret[prop].nullable <=>
                   NonNullCount(call.records, prop) < Len(call.records)

\* A batch where one property is nullable only because a record lacks it
\* (no record holds null for it) and another property is not nullable.
C1_Witness ==
    /\ call.fn = "infer_schema"
    /\ \E p, q \in DOMAIN ret :
        /\ ret[p].nullable
        /\ \E i \in 1..Len(call.records) : p \notin DOMAIN call.records[i]
        /\ \A i \in 1..Len(call.records) :
               p \in DOMAIN call.records[i] => call.records[i][p] # None
        /\ ~ret[q].nullable

\* The texts of the non-null values the batch holds for prop.
NonNullTexts(recs, prop) ==
    {str(recs[i][prop]) : i \in {j \in 1..Len(recs) :
                    prop \in DOMAIN recs[j] /\ recs[j][prop] # None}}

\* C2: every sample_values list infer_schema returns has pairwise distinct
\* textual representations and at most max_samples elements.
C2_SamplesDistinctAndCapped ==
    call.fn = "infer_schema" =>
        \A prop \in DOMAIN ret :
            LET samples == ret[prop].sample_values
            IN  /\ Len(samples) <= call.max_samples
                /\ \A i, j \in 1..Len(samples) :
                       i # j => str(samples[i]) # str(samples[j])

\* A property with more distinct texts than the cap, with duplicate texts
\* upstream, two of them of different values (1 and "1"), and a full list.
C2_Witness ==
    /\ call.fn = "infer_schema"
    /\ call.max_samples >= 1
    /\ \E prop \in DOMAIN ret :
        /\ Cardinality(NonNullTexts(call.records, prop)) > call.max_samples
        /\ ret[prop].count > Cardinality(NonNullTexts(call.records, prop))
        /\ \E i, j \in 1..Len(call.records) :
            /\ prop \in DOMAIN call.records[i]
            /\ prop \in DOMAIN call.records[j]
            /\ call.records[i][prop] # call.records[j][prop]
            /\ str(call.records[i][prop]) = str(call.records[j][prop])
        /\ Len(ret[prop].sample_values) = call.max_samples

\* C6: the columns execute_query builds from a non-empty batch are named by
\* the union of the records' keys, each holds one value per record in record
\* order, and the value at position i of column K is record i's value for K,
\* or null when record i has no key K.
C6_TableRectangular ==
    (call.fn = "execute_query" /\ call.records # <<>>) =>
        /\ DOMAIN ret.columns_data = Keys(call.records)
        /\ "path" \in DOMAIN ret.columns_data
        /\ \A K \in DOMAIN ret.columns_data :
            /\ Len(ret.columns_data[K]) = Len(call.records)
            /\ \A i \in 1..Len(call.records) :
                ret.columns_data[K][i] =
                    IF K \in DOMAIN call.records[i]
                    THEN call.records[i][K] ELSE None

\* A batch with a key that its first record lacks, null filled in for it.
C6_Witness ==
    /\ call.fn = "execute_query"
    /\ Len(call.records) >= 2
    /\ \E K \in DOMAIN ret.columns_data :
        /\ K \notin DOMAIN call.records[1]
        /\ ret.columns_data[K][1] = None
        /\ \E i \in 1..Len(call.records) : ret.columns_data[K][i] # None

CountSizes == {0, 1, 5}

CountIs(result, n) ==
    /\ result.row_count = 1
    /\ Len(result.results) = 1
    /\ DOMAIN result.results[1] = {"count_star()"}
    /\ result.results[1]["count_star()"] = IntValue(n)

OneClassPerColumn(recs) ==
    \A K \in Keys(recs) :
        /\ \A i, j \in 1..Len(recs) :
            (K \in DOMAIN recs[i] /\ K \in DOMAIN recs[j]
                /\ recs[i][K] # None /\ recs[j][K] # None)
            => recs[i][K].cls = recs[j][K].cls
        /\ \A i \in 1..Len(recs) : K \in DOMAIN recs[i] =>
            \A m, n \in 1..Len(recs[i][K].elems) :
                recs[i][K].elems[m] = recs[i][K].elems[n]

C8_EmptyBatchShortCircuit ==
    (call.fn = "execute_query" /\ call.records = <<>>) =>
        /\ ret.raised = "none"
        /\ ret.result = [results |-> <<>>, row_count |-> 0, columns |-> <<>>]
        /\ ~ret.table_built
        /\ ret.engine_calls = 0

\* The empty batch with a query the engine would refuse.
C8_Witness ==
    /\ call.fn = "execute_query"
    /\ call.records = <<>>
    /\ call.sql = Q_SYNTAX
    /\ ret.result.row_count = 0

\* The query is malformed, or names a table or a column that is not there.
BadQuery(recs, sql) ==
    \/ sql = Q_SYNTAX
    \/ sql = Q_NOTABLE
    \/ /\ sql \in {Q_TITLE, Q_NULL, Q_SAMENAME}
       /\ \A i \in 1..Len(recs) : "title" \notin DOMAIN recs[i]

\* C9 as stated: for every batch, a malformed query or one naming undefined
\* columns or tables makes execute_query fail and return no result.
C9_BadQueryFailsEveryBatch ==
    (call.fn = "execute_query" /\ BadQuery(call.records, call.sql)) =>
        ret.raised # "none" /\ ret.result = "none"

\* C9 amended: for every non-empty batch such a query makes execute_query
\* raise and return no result, and the error is the engine's whenever the
\* table was built; for the empty batch the call returns the empty result.
C9_BadQueryFailsNonEmptyBatch ==
    (call.fn = "execute_query" /\ BadQuery(call.records, call.sql)) =>
        IF call.records = <<>>
        THEN ret.raised = "none" /\ ret.result.row_count = 0
        ELSE /\ ret.raised # "none"
             /\ ret.result = "none"
             /\ ret.table_built =>
                    ret.raised \in {"ParserException", "CatalogException",
                                    "BinderException"}

\* A query on a column no record of a non-empty batch holds.
C9_Witness ==
    /\ call.fn = "execute_query"
    /\ call.records # <<>>
    /\ call.sql = Q_TITLE
    /\ \A i \in 1..Len(call.records) : "title" \notin DOMAIN call.records[i]
    /\ ret.raised = "BinderException"

\* The tag of the first rule that matches, in the order the claim gives.
\* emptyIsStrings: whether a sequence without elements counts as one whose
\* elements are all strings.
TagByPriority(v, emptyIsStrings) ==
    LET allStrings == \A i \in 1..Len(v.elems) : v.elems[i] = "str"
    IN  IF v.cls = "NoneType" THEN "null"
        ELSE IF v.cls = "bool" THEN "boolean"
        ELSE IF v.cls \in {"int", "bool"} THEN "integer"
        ELSE IF v.cls = "float" THEN "double"
        ELSE IF v.cls = "date" THEN "date"
        ELSE IF v.cls = "datetime" THEN "timestamp"
        ELSE IF v.cls = "list" /\ allStrings
                /\ (emptyIsStrings \/ v.elems # <<>>) THEN "array<string>"
        ELSE IF v.cls = "list" THEN "array"
        ELSE IF v.cls = "str" THEN "string"
        ELSE "json"

\* C10 as stated: infer_type gives the tag of the first matching rule, a
\* sequence whose every element is a string being array<string>.
C10_TypeByPriority ==
    call.fn = "infer_type" =>
        /\ ret = TagByPriority(call.value, TRUE)
        /\ call.value.cls = "bool" => ret # "integer"
        /\ call.value.cls = "datetime" => ret # "date"

\* C10 amended: the same order, array<string> being a sequence of at least
\* one element whose every element is a string; the empty sequence is array.
C10_TypeByPriorityNonEmpty ==
    call.fn = "infer_type" =>
        /\ ret = TagByPriority(call.value, FALSE)
        /\ call.value.cls = "bool" => ret # "integer"
        /\ call.value.cls = "datetime" => ret # "date"

C10_Witness ==
    /\ call.fn = "infer_type"
    /\ call.value = List(<<>>)
    /\ ret = "array"

\* C12: for every call of execute_query that returns, row_count is the
\* number of result rows and every row has exactly one entry for each
\* element of the columns list, repeated column names included.
C12_RowsMatchColumns ==
    (call.fn = "execute_query" /\ ret.raised = "none") =>
        /\ ret.result.row_count = Len(ret.result.results)
        /\ \A i \in 1..Len(ret.result.results) :
            /\ Cardinality(DOMAIN ret.result.results[i])
                   = Len(ret.result.columns)
            /\ \A c \in 1..Len(ret.result.columns) :
                   ret.result.columns[c] \in DOMAIN ret.result.results[i]

====
